---- MODULE Spec2Model ----
(***************************************************************************)
(* Essay-grading session controller and its bounded local history store.   *)
(*                                                                         *)
(*   History Store       getHistory / saveHistory / deleteHistoryItem      *)
(*   Revision Selector   relevantHistory in handleGrade                    *)
(*   Grading call        gradeEssay (external model call + JSON.parse)     *)
(*   Session Controller  App: handleGrade, handleClear, handleEdit,        *)
(*                       handleSelectHistory, handleDeleteHistory          *)
(*   Examiner chat       ResultView: handleSendMessage, chatWithExaminer   *)
(***************************************************************************)
EXTENDS Integers, Sequences, FiniteSets, TLC

\* ------------------------------------------------------------------ bounds
\* SpecStore: attempted saves, deletes and failed storage writes per run.
MaxSaves == 25
MaxDeletes == 1
MaxWriteFails == 1
\* Spec: accepted submits (external grading calls) and input changes per run.
MaxGradings == 2
MaxEdits == 3
\* SpecSelect: records in the history the selection is made from.
MaxSelectLen == 4
\* SpecChat: chat messages accepted (external chat calls) per run.
MaxChats == 3
\* SpecJson: records saved per run.
MaxJsonSaves == 2

\* ------------------------------------------------------ program constants
\* saveHistory keeps [record, ...history].slice(0, 20)
HistoryLimit == 20
\* relevantHistory keeps .slice(0, 3)
DraftLimit == 3

\* ------------------------------------------------------------ value types
\* enum EssayType
EssayType == {"BIG", "SMALL"}

\* string | null image payloads; only presence matters to the controller
NoImage == "null"
Image == "base64"

\* placeholders substituted for empty text fields in a new HistoryRecord
TopicImagePlaceholder == "[image topic]"
EssayImagePlaceholder == "[image essay]"
NoTextPlaceholder == "[no text]"

\* s.slice(0, n)
Slice(s, n) == SubSeq(s, 1, IF Len(s) < n THEN Len(s) ELSE n)

\* A JavaScript value held where HistoryRecord[] is declared: an array of
\* records, or some other parsed JSON value (not iterable, no .filter).
ArrayVal(recs) == [isArray |-> TRUE, recs |-> recs]
NonArrayVal == [isArray |-> FALSE, recs |-> <<>>]

\* ---------------------------------------------------------- History Store
\* The blob under STORAGE_KEY in localStorage:
\*   "missing"  getItem returns null (or the empty string)
\*   "corrupt"  text JSON.parse rejects
\*   "json"     text JSON.parse accepts; val is the value it denotes
MissingBlob == [kind |-> "missing", val |-> ArrayVal(<<>>)]
CorruptBlob == [kind |-> "corrupt", val |-> ArrayVal(<<>>)]

\* JSON.stringify(updated)
JSONStringify(v) == [kind |-> "json", val |-> v]

\* JSON.parse(stored); defined on "json" blobs, throws on "corrupt" ones
JSONParse(blob) == blob.val

\* getHistory(): stored ? JSON.parse(stored) : [], and [] when parse throws
GetHistory(blob) ==
    IF blob.kind = "json" THEN JSONParse(blob) ELSE ArrayVal(<<>>)

\* Variants of saveHistory with one slip each: appending instead of
\* prepending, no slice, returning the abandoned attempt, and letting the
\* setItem error escape.
SaveHistoryAppends(blob, record, writeOk) ==
    LET history == GetHistory(blob)
        updated == ArrayVal(Slice(history.recs \o <<record>>, HistoryLimit))
    IN  IF history.isArray /\ writeOk
        THEN [stored |-> JSONStringify(updated), ret |-> updated, threw |-> FALSE]
        ELSE [stored |-> blob, ret |-> GetHistory(blob), threw |-> FALSE]

SaveHistoryUnbounded(blob, record, writeOk) ==
    LET history == GetHistory(blob)
        updated == ArrayVal(<<record>> \o history.recs)
    IN  IF history.isArray /\ writeOk
        THEN [stored |-> JSONStringify(updated), ret |-> updated, threw |-> FALSE]
        ELSE [stored |-> blob, ret |-> GetHistory(blob), threw |-> FALSE]

SaveHistoryKeepsAttempt(blob, record, writeOk) ==
    LET history == GetHistory(blob)
        updated == ArrayVal(Slice(<<record>> \o history.recs, HistoryLimit))
    IN  IF history.isArray /\ writeOk
        THEN [stored |-> JSONStringify(updated), ret |-> updated, threw |-> FALSE]
        ELSE [stored |-> blob, ret |-> updated, threw |-> FALSE]

SaveHistoryRethrows(blob, record, writeOk) ==
    LET history == GetHistory(blob)
        updated == ArrayVal(Slice(<<record>> \o history.recs, HistoryLimit))
    IN  IF history.isArray /\ writeOk
        THEN [stored |-> JSONStringify(updated), ret |-> updated, threw |-> FALSE]
        ELSE [stored |-> blob, ret |-> GetHistory(blob), threw |-> TRUE]

\* saveHistory(record) with the outcome of localStorage.setItem as writeOk.
\* Result: the blob left in storage, the value returned to the caller, and
\* whether an exception escaped to the caller (the catch block lets none).
SaveHistory(blob, record, writeOk) ==
    LET history == GetHistory(blob)
    IN  IF ~history.isArray
        THEN \* [record, ...history] throws TypeError: caught
             [stored |-> blob, ret |-> GetHistory(blob), threw |-> FALSE]
        ELSE LET updated == ArrayVal(Slice(<<record>> \o history.recs, HistoryLimit))
             IN  IF writeOk
                 THEN [stored |-> JSONStringify(updated), ret |-> updated, threw |-> FALSE]
                 ELSE \* setItem throws: caught, read back
                      [stored |-> blob, ret |-> GetHistory(blob), threw |-> FALSE]

\* Variant of deleteHistoryItem whose filter test is inverted.
DeleteHistoryItemKeepsMatch(blob, id, writeOk) ==
    LET history == GetHistory(blob)
        updated == ArrayVal(SelectSeq(history.recs, LAMBDA h : h.id = id))
    IN  IF history.isArray /\ writeOk
        THEN [stored |-> JSONStringify(updated), ret |-> updated, threw |-> FALSE]
        ELSE [stored |-> blob, ret |-> GetHistory(blob), threw |-> FALSE]

\* deleteHistoryItem(id) with the outcome of localStorage.setItem as writeOk;
\* result as for saveHistory
DeleteHistoryItem(blob, id, writeOk) ==
    LET history == GetHistory(blob)
    IN  IF ~history.isArray
        THEN \* history.filter is not a function: caught
             [stored |-> blob, ret |-> GetHistory(blob), threw |-> FALSE]
        ELSE LET updated == ArrayVal(SelectSeq(history.recs, LAMBDA h : h.id # id))
             IN  IF writeOk
                 THEN [stored |-> JSONStringify(updated), ret |-> updated, threw |-> FALSE]
                 ELSE [stored |-> blob, ret |-> GetHistory(blob), threw |-> FALSE]

\* ---------------------------------------------------------- grading result
\* result: GradingResult | null
NoResult == [null |-> TRUE]

\* The fields of a parsed grading payload the controller and store carry:
\* the two scores and whether the required polishedVersion is present.
GradingResult(total, max, polished) ==
    [totalScore |-> total, maxScore |-> max, polishedVersion |-> polished]

\* interface HistoryRecord
HistoryRecord(id, timestamp, type, topic, essay, res, hasImages) ==
    [id |-> id, timestamp |-> timestamp, type |-> type, topicText |-> topic,
     essayText |-> essay, result |-> res, hasImages |-> hasImages]

\* Date.now().toString()
IdOf(t) == ToString(t)

\* ------------------------------------------------------------------ state
VARIABLES
    stored,         \* localStorage[STORAGE_KEY]
    activeTab, topicText, topicImage, essayText, essayImage,
    loading, result, error,
    history,        \* App's in-memory copy of the history
    isHistoryOpen,
    pending,        \* handleGrade calls awaiting gradeEssay, each with what it captured
    reading,        \* the FileReader reads still loading: [slot, stale]
    now,            \* last value Date.now() returned
    submits,        \* submits accepted (external grading calls issued) so far
    edits,          \* input changes (tab, text, image) made so far
    ev,             \* the handler or store operation that ran last
    ret,            \* value the last store operation returned
    nSaves, nDeletes, nWriteFails,  \* store operations driven so far
    chatHistory,    \* ResultView: transcript of the mounted result view
    inputMessage,   \* ResultView: text in the chat input
    isChatLoading,  \* ResultView: a chat call of this view is awaited
    chatPending,    \* handleSendMessage calls awaiting chatWithExaminer
    chats           \* chat messages accepted (external chat calls issued) so far

storeVars == <<stored, ret, nSaves, nDeletes, nWriteFails>>
appVars == <<activeTab, topicText, topicImage, essayText, essayImage,
             loading, result, error, history, isHistoryOpen, pending,
             reading, now, submits, edits>>
chatVars == <<chatHistory, inputMessage, isChatLoading, chatPending, chats>>
vars == <<storeVars, appVars, chatVars, ev>>

\* error: string | null, with the two messages handleGrade sets
NoError == "null"
ValidationError == "validation message"
GradingError == "grading failed message"

\* useState initial values, before the mount effect has run
AppInit ==
    /\ activeTab = "BIG"
    /\ topicText = "" /\ topicImage = NoImage
    /\ essayText = "" /\ essayImage = NoImage
    /\ loading = FALSE /\ result = NoResult /\ error = NoError
    /\ isHistoryOpen = FALSE
    /\ pending = <<>>
    /\ reading = {}
    /\ now = 1
    /\ submits = 0
    /\ edits = 0
    /\ chatHistory = <<>> /\ inputMessage = "" /\ isChatLoading = FALSE
    /\ chatPending = <<>>
    /\ chats = 0

\* ------------------------------------------- the store driven on its own
\* The k-th record handed to saveHistory (distinct ids, in save order).
StoreRecord(k) ==
    HistoryRecord(IdOf(k), k, "BIG", "A", "essay", GradingResult(12, 20, TRUE), FALSE)

\* An id no stored record has.
AbsentId == IdOf(0)

StoreInit ==
    /\ stored = MissingBlob
    /\ history = GetHistory(stored)
    /\ ret = GetHistory(stored)
    /\ nSaves = 0 /\ nDeletes = 0 /\ nWriteFails = 0
    /\ ev = [op |-> "init"]
    /\ AppInit

\* saveHistory(StoreRecord(nSaves + 1)), the write succeeding or failing
StoreSave(writeOk) ==
    /\ nSaves < MaxSaves
    /\ writeOk \/ nWriteFails < MaxWriteFails
    /\ LET rec == StoreRecord(nSaves + 1)
           out == SaveHistory(stored, rec, writeOk)
       IN  /\ stored' = out.stored
           /\ ret' = out.ret
           /\ ev' = [op |-> "save", id |-> rec.id, writeOk |-> writeOk]
    /\ nSaves' = nSaves + 1
    /\ nWriteFails' = IF writeOk THEN nWriteFails ELSE nWriteFails + 1
    /\ UNCHANGED <<nDeletes, appVars, chatVars>>

\* deleteHistoryItem(id) for a stored or an absent id
StoreDelete(id, writeOk) ==
    /\ nDeletes < MaxDeletes
    /\ writeOk \/ nWriteFails < MaxWriteFails
    /\ LET out == DeleteHistoryItem(stored, id, writeOk)
       IN  /\ stored' = out.stored
           /\ ret' = out.ret
           /\ ev' = [op |-> "delete", id |-> id, writeOk |-> writeOk]
    /\ nDeletes' = nDeletes + 1
    /\ nWriteFails' = IF writeOk THEN nWriteFails ELSE nWriteFails + 1
    /\ UNCHANGED <<nSaves, appVars, chatVars>>

StoredIds == {GetHistory(stored).recs[i].id : i \in 1..Len(GetHistory(stored).recs)}

\* Ids a delete is driven with: the newest and the oldest stored record,
\* and an id that is not stored.
DeleteTargets ==
    LET recs == GetHistory(stored).recs
    IN  {AbsentId} \cup (IF recs = <<>> THEN {} ELSE {recs[1].id, recs[Len(recs)].id})

StoreNext ==
    \/ \E writeOk \in BOOLEAN : StoreSave(writeOk)
    \/ \E id \in DeleteTargets, writeOk \in BOOLEAN : StoreDelete(id, writeOk)

SpecStore == StoreInit /\ [][StoreNext]_vars

\* -------------------------------------------------- History Store claims
Min(a, b) == IF a < b THEN a ELSE b

\* ids of a sequence of records, in order
Ids(recs) == [i \in 1..Len(recs) |-> recs[i].id]

\* C1: from an empty store, after n successful saves of distinct records and
\* no delete, getHistory returns exactly the last min(n, 20) saved records,
\* newest first (the oldest ones are the ones evicted).
C1_LastTwentyNewestFirst ==
    (nDeletes = 0 /\ nWriteFails = 0) =>
        /\ GetHistory(stored) =
              ArrayVal([i \in 1..Min(nSaves, 20) |-> StoreRecord(nSaves - i + 1)])
        /\ ret = GetHistory(stored)

\* C1 witness: 25 successful saves, the store lists records 25 down to 6.
C1_Witness ==
    /\ ev.op = "save" /\ nSaves = 25 /\ nDeletes = 0 /\ nWriteFails = 0
    /\ Len(GetHistory(stored).recs) = 20
    /\ GetHistory(stored).recs[1].id = IdOf(25)
    /\ GetHistory(stored).recs[20].id = IdOf(6)

\* C2: under any interleaving of saves and deletes, each succeeding or
\* failing on the storage write, the persisted sequence and the sequence
\* returned to the caller hold at most 20 records.
C2_AtMostTwenty ==
    /\ Len(GetHistory(stored).recs) <= 20
    /\ Len(ret.recs) <= 20

\* C2 witness: a save into a full store after a delete and a failed write.
C2_Witness ==
    /\ ev.op = "save" /\ ev.writeOk
    /\ nSaves > 21 /\ nDeletes > 0 /\ nWriteFails > 0
    /\ Len(GetHistory(stored).recs) = 20
    /\ Len(ret.recs) = 20

\* C10: when the storage write fails in saveHistory or deleteHistoryItem,
\* the persisted blob is unchanged and the value returned is the sequence
\* that was persisted before: without the new record after a failed save,
\* still with the target record after a failed delete.
C10_FailedWriteReadsBack ==
    [][(ev'.op \in {"save", "delete"} /\ ~ev'.writeOk) =>
          /\ stored' = stored
          /\ ret' = GetHistory(stored)
          /\ (ev'.op = "save") =>
                \A i \in 1..Len(ret'.recs) : ret'.recs[i].id # ev'.id
          /\ (ev'.op = "delete" /\ ev'.id \in StoredIds) =>
                \E i \in 1..Len(ret'.recs) : ret'.recs[i].id = ev'.id]_vars

\* C10 witness: a failed save into a store that already holds records.
C10_Witness ==
    /\ ev.op = "save" /\ ~ev.writeOk
    /\ Len(ret.recs) > 0
    /\ ret = GetHistory(stored)

\* position of the record with the given id in recs (ids are distinct)
PosOf(recs, id) == CHOOSE i \in 1..Len(recs) : recs[i].id = id

\* C12: a successful deleteHistoryItem(id) does not raise; for an id no
\* stored record has, the listed sequence is the same afterwards; for an id
\* that is present, the listing loses exactly the records with that id and
\* keeps all the others in their previous relative order.
C12_DeleteRemovesOnlyTheTarget ==
    [][(ev'.op = "delete" /\ ev'.writeOk) =>
          LET old == GetHistory(stored).recs
              new == GetHistory(stored').recs
          IN  /\ ~DeleteHistoryItem(stored, ev'.id, TRUE).threw
              /\ ret' = GetHistory(stored')
              /\ (ev'.id \notin StoredIds) => new = old
              /\ \A i \in 1..Len(new) : new[i].id # ev'.id
              /\ \A i \in 1..Len(old) :
                    old[i].id # ev'.id => \E j \in 1..Len(new) : new[j] = old[i]
              /\ \A j \in 1..Len(new) : \E i \in 1..Len(old) : new[j] = old[i]
              /\ \A j \in 1..(Len(new) - 1) :
                    PosOf(old, new[j].id) < PosOf(old, new[j + 1].id)]_vars

\* C12 witness: the oldest record of a full store has been deleted, the 19
\* newer ones are listed in their order.
C12_Witness ==
    /\ ev.op = "delete" /\ ev.writeOk /\ ev.id # AbsentId
    /\ Len(ret.recs) = 19
    /\ ret = GetHistory(stored)
    /\ ret.recs[1].id # ev.id
    /\ \A i \in 1..18 : ret.recs[i].timestamp = ret.recs[i + 1].timestamp + 1

\* C12 witness for the absent id: a delete of an id that is not stored has
\* left a store of several records as it was.
C12_WitnessAbsent ==
    /\ ev.op = "delete" /\ ev.writeOk /\ ev.id = AbsentId
    /\ Len(ret.recs) = 20

\* ------------------------------------------------------ Revision Selector
\* .sort((a, b) => b.timestamp - a.timestamp): stable, newest first
RECURSIVE InsertByTimestampDesc(_, _)
InsertByTimestampDesc(x, sorted) ==
    IF sorted = <<>> THEN <<x>>
    ELSE IF Head(sorted).timestamp <= x.timestamp THEN <<x>> \o sorted
    ELSE <<Head(sorted)>> \o InsertByTimestampDesc(x, Tail(sorted))

RECURSIVE SortByTimestampDesc(_)
SortByTimestampDesc(s) ==
    IF s = <<>> THEN <<>>
    ELSE InsertByTimestampDesc(Head(s), SortByTimestampDesc(Tail(s)))

\* Variants of relevantHistory with one slip each: oldest first, and the
\* essay type left out of the filter.
RelevantHistoryOldestFirst(hist, tab, topic) ==
    LET matching == SelectSeq(hist, LAMBDA h : h.type = tab /\ h.topicText = topic)
        sorted == SortByTimestampDesc(matching)
        oldestFirst == [i \in 1..Len(sorted) |-> sorted[Len(sorted) - i + 1]]
    IN  IF topic = "" THEN <<>> ELSE Slice(oldestFirst, DraftLimit)

\* relevantHistory in handleGrade, for history an array
RelevantHistory(hist, tab, topic) ==
    IF topic = "" THEN <<>>
    ELSE Slice(SortByTimestampDesc(
                   SelectSeq(hist, LAMBDA h : h.type = tab /\ h.topicText = topic)),
               DraftLimit)

\* ----------------------------------------------------------- gradeEssay
\* What the external generateContent call can do: reject, resolve with no
\* text, resolve with text JSON.parse rejects, or resolve with JSON text.
FailedOutcomes ==
    {[kind |-> k, data |-> NoResult] : k \in {"raise", "notext", "unparsable"}}

JsonOutcomes(payloads) == {[kind |-> "json", data |-> d] : d \in payloads}

\* Payloads of a provider that enforces responseSchema.required.
SchemaPayloads == {GradingResult(15, 20, TRUE), GradingResult(8, 10, TRUE)}

\* A payload lacking the required polishedVersion: schema enforcement is
\* the provider's, outside the program.
PartialPayloads == {GradingResult(15, 20, FALSE)}

GradingOutcomes == FailedOutcomes \cup JsonOutcomes(SchemaPayloads)

LooseOutcomes == GradingOutcomes \cup JsonOutcomes(PartialPayloads)

\* what gradeEssay writes into the instruction when there is no prior draft
NoHistoryContext == [block |-> FALSE, versions |-> <<>>]

\* Variant of the revision context that quotes the last of the drafts.
HistoryContextQuotesLast(previousDrafts) ==
    IF Len(previousDrafts) > 0
    THEN [block |-> TRUE,
          versions |-> <<[score |-> previousDrafts[Len(previousDrafts)].result.totalScore,
                          essayText |-> previousDrafts[Len(previousDrafts)].essayText]>>]
    ELSE NoHistoryContext

\* historyContext in gradeEssay: the revision block of the instruction, with
\* the versions it quotes ("Previous Version 1 (Score: ...)": previousDrafts[0])
HistoryContext(previousDrafts) ==
    IF Len(previousDrafts) > 0
    THEN [block |-> TRUE,
          versions |-> <<[score |-> previousDrafts[1].result.totalScore,
                          essayText |-> previousDrafts[1].essayText]>>]
    ELSE NoHistoryContext

\* gradeEssay after the await: throw on a rejected call, on no text and on
\* unparsable text; otherwise return JSON.parse(text) as GradingResult.
GradeEssay(outcome) ==
    IF outcome.kind = "json"
    THEN [ok |-> TRUE, data |-> outcome.data]
    ELSE [ok |-> FALSE, data |-> NoResult]

\* ------------------------------------------------------ chatWithExaminer
\* interface ChatMessage
ChatMessage(role, content, timestamp) ==
    [role |-> role, content |-> content, timestamp |-> timestamp]

\* the string returned in place of an absent or empty response text
ChatFallback == "examiner busy, try later"

\* What the external generateContent call of the chat can do: resolve with
\* text, resolve with no text (undefined or empty), or reject.
ChatOutcomes ==
    {[kind |-> "text", text |-> "answer"], [kind |-> "notext", text |-> ""],
     [kind |-> "raise", text |-> ""]}

\* Variant of chatWithExaminer without the fallback.
ChatWithExaminerNoFallback(outcome) ==
    IF outcome.kind = "raise"
    THEN [ok |-> FALSE, text |-> ""]
    ELSE [ok |-> TRUE, text |-> outcome.text]

\* chatWithExaminer after the await: the rejection propagates; otherwise
\* return response.text || fallback
ChatWithExaminer(outcome) ==
    IF outcome.kind = "raise"
    THEN [ok |-> FALSE, text |-> ""]
    ELSE [ok |-> TRUE, text |-> IF outcome.text # "" THEN outcome.text ELSE ChatFallback]

\* ---------------------------------------------------- Session Controller
TopicTexts == {"", "A"}
EssayTexts == {"", "E"}
ImageSlots == {"topic", "essay"}

inputVars == <<activeTab, topicText, topicImage, essayText, essayImage>>
storeDriver == <<ev, nSaves, nDeletes, nWriteFails>>

\* Variant of the validation that forgets the essay.
InputMissingTopicOnly(tText, tImage, eText, eImage) ==
    tText = "" /\ tImage = NoImage

\* (!topicText && !topicImage) || (!essayText && !essayImage)
InputMissing(tText, tImage, eText, eImage) ==
    \/ tText = "" /\ tImage = NoImage
    \/ eText = "" /\ eImage = NoImage

\* Variant of newRecord that stores the text fields as they are.
NewRecordNoPlaceholder(c, data, t) ==
    HistoryRecord(IdOf(t), t, c.tab, c.topicText, c.essayText, data,
                  c.topicImage # NoImage \/ c.essayImage # NoImage)

\* newRecord in handleGrade, from the values the handler captured; both
\* Date.now() reads return t
NewRecord(c, data, t) ==
    HistoryRecord(
        IdOf(t), t, c.tab,
        IF c.topicText # "" THEN c.topicText
        ELSE IF c.topicImage # NoImage THEN TopicImagePlaceholder ELSE NoTextPlaceholder,
        IF c.essayText # "" THEN c.essayText
        ELSE IF c.essayImage # NoImage THEN EssayImagePlaceholder ELSE NoTextPlaceholder,
        data,
        c.topicImage # NoImage \/ c.essayImage # NoImage)

\* s without its i-th element
RemoveAt(s, i) == SubSeq(s, 1, i - 1) \o SubSeq(s, i + 1, Len(s))

\* The mount effect has run: history = getHistory().
Init ==
    /\ stored = MissingBlob
    /\ history = GetHistory(stored)
    /\ ret = GetHistory(stored)
    /\ nSaves = 0 /\ nDeletes = 0 /\ nWriteFails = 0
    /\ ev = [op |-> "mount"]
    /\ AppInit

\* The submit button is rendered in the input view and disabled={loading}.
SubmitEnabledWhileLoading == result = NoResult

SubmitEnabled == result = NoResult /\ ~loading

\* handleGrade up to the await: validation, then the external call is issued
HandleGrade ==
    /\ SubmitEnabled
    /\ IF InputMissing(topicText, topicImage, essayText, essayImage)
       THEN /\ error' = ValidationError
            /\ UNCHANGED <<loading, pending, submits>>
       ELSE /\ submits < MaxGradings
            /\ loading' = TRUE
            /\ error' = NoError
            /\ IF history.isArray \/ topicText = ""
               THEN /\ submits' = submits + 1
                    /\ pending' = Append(pending,
                          [tab |-> activeTab,
                           topicText |-> topicText, topicImage |-> topicImage,
                           essayText |-> essayText, essayImage |-> essayImage,
                           drafts |-> RelevantHistory(history.recs, activeTab, topicText),
                           historyContext |->
                               HistoryContext(RelevantHistory(history.recs, activeTab, topicText))])
               ELSE \* history.filter is not a function: thrown before the try
                    UNCHANGED <<pending, submits>>
    /\ UNCHANGED <<chatVars, stored, ret, storeDriver, inputVars, result, history,
                   isHistoryOpen, reading, now, edits>>

\* Variant of the failure path that resets the form.
GradeFailedResetsForm(i, outcome) ==
    /\ ~GradeEssay(outcome).ok
    /\ error' = GradingError
    /\ loading' = FALSE
    /\ pending' = RemoveAt(pending, i)
    /\ topicText' = "" /\ essayText' = ""
    /\ topicImage' = NoImage /\ essayImage' = NoImage
    /\ UNCHANGED <<chatVars, stored, ret, storeDriver, activeTab, result, history,
                   isHistoryOpen, reading, now, submits, edits>>

\* handleGrade after the await, the call having failed: catch, finally
GradeFailed(i, outcome) ==
    /\ ~GradeEssay(outcome).ok
    /\ error' = GradingError
    /\ loading' = FALSE
    /\ pending' = RemoveAt(pending, i)
    /\ UNCHANGED <<chatVars, stored, ret, storeDriver, inputVars, result, history,
                   isHistoryOpen, reading, now, submits, edits>>

\* handleGrade after the await, gradeEssay having returned data: setResult,
\* build the record at Date.now() = t, saveHistory, setHistory, finally
GradeSucceeded(i, outcome, t, writeOk) ==
    /\ GradeEssay(outcome).ok
    /\ LET data == GradeEssay(outcome).data
           out == SaveHistory(stored, NewRecord(pending[i], data, t), writeOk)
       IN  /\ result' = data
           /\ stored' = out.stored
           /\ ret' = out.ret
           /\ IF out.threw
              THEN \* an exception out of saveHistory lands in the catch block
                   error' = GradingError /\ history' = history
              ELSE error' = error /\ history' = out.ret
    /\ now' = t
    /\ loading' = FALSE
    /\ pending' = RemoveAt(pending, i)
    /\ UNCHANGED <<chatVars, storeDriver, inputVars, isHistoryOpen, reading, submits, edits>>

\* The conditional render drops <ResultView/> when result becomes null: its
\* chat state is gone (the next mount starts from the useState defaults),
\* and the chat calls it was awaiting can no longer set state anywhere.
ResultViewUnmounted ==
    /\ chatHistory' = <<>>
    /\ inputMessage' = ""
    /\ isChatLoading' = FALSE
    /\ chatPending' = [k \in 1..Len(chatPending) |-> [chatPending[k] EXCEPT !.live = FALSE]]
    /\ chats' = chats

\* A FileReader is not cancelled by the handlers: a read begun before "new"
\* or a history selection goes on, noted as begun before that transition.
Outlived(reads) == {[r EXCEPT !.stale = TRUE] : r \in reads}

\* Variant of handleClear that leaves the error message.
HandleClearKeepsError ==
    /\ result' = NoResult
    /\ topicText' = "" /\ essayText' = ""
    /\ topicImage' = NoImage /\ essayImage' = NoImage
    /\ ResultViewUnmounted
    /\ reading' = Outlived(reading)
    /\ UNCHANGED <<stored, ret, storeDriver, activeTab, loading, error, history,
                   isHistoryOpen, pending, now, submits, edits>>

\* handleClear ("new"): the header logo, or onClear in the result view
HandleClear ==
    /\ result' = NoResult
    /\ topicText' = "" /\ essayText' = ""
    /\ topicImage' = NoImage /\ essayImage' = NoImage
    /\ error' = NoError
    /\ ResultViewUnmounted
    /\ reading' = Outlived(reading)
    /\ UNCHANGED <<stored, ret, storeDriver, activeTab, loading, history,
                   isHistoryOpen, pending, now, submits, edits>>

\* Variant of handleEdit that also drops the images.
HandleEditDropsImages ==
    /\ result # NoResult
    /\ result' = NoResult
    /\ topicImage' = NoImage /\ essayImage' = NoImage
    /\ ResultViewUnmounted
    /\ UNCHANGED <<stored, ret, storeDriver, activeTab, topicText, essayText,
                   loading, error, history, isHistoryOpen, pending, reading, now,
                   submits, edits>>

\* handleEdit: onEdit in the result view
HandleEdit ==
    /\ result # NoResult
    /\ result' = NoResult
    /\ ResultViewUnmounted
    /\ UNCHANGED <<stored, ret, storeDriver, inputVars, loading, error, history,
                   isHistoryOpen, pending, reading, now, submits, edits>>

\* Variant of handleSelectHistory that leaves the images attached.
HandleSelectHistoryKeepsImages(record) ==
    /\ isHistoryOpen
    /\ result' = record.result
    /\ activeTab' = record.type
    /\ topicText' = record.topicText
    /\ essayText' = record.essayText
    /\ isHistoryOpen' = FALSE
    /\ reading' = Outlived(reading)
    /\ UNCHANGED <<chatVars, stored, ret, storeDriver, topicImage, essayImage, loading, error,
                   history, pending, now, submits, edits>>

\* Variant of handleSelectHistory that moves the viewed record to the front
\* of the store (a store ordered by last access).
HandleSelectHistoryTouches(record) ==
    /\ isHistoryOpen
    /\ result' = record.result
    /\ activeTab' = record.type
    /\ topicText' = record.topicText
    /\ essayText' = record.essayText
    /\ topicImage' = NoImage /\ essayImage' = NoImage
    /\ isHistoryOpen' = FALSE
    /\ stored' = JSONStringify(ArrayVal(
           <<record>> \o SelectSeq(GetHistory(stored).recs, LAMBDA x : x.id # record.id)))
    /\ history' = GetHistory(stored')
    /\ reading' = Outlived(reading)
    /\ UNCHANGED <<chatVars, ret, storeDriver, loading, error, pending,
                   now, submits, edits>>

\* handleSelectHistory(record): "view details" on a row of the open modal
HandleSelectHistory(record) ==
    /\ isHistoryOpen
    /\ result' = record.result
    /\ activeTab' = record.type
    /\ topicText' = record.topicText
    /\ essayText' = record.essayText
    /\ topicImage' = NoImage /\ essayImage' = NoImage
    /\ isHistoryOpen' = FALSE
    /\ reading' = Outlived(reading)
    /\ UNCHANGED <<chatVars, stored, ret, storeDriver, loading, error, history, pending,
                   now, submits, edits>>

\* Variant of handleDeleteHistory that does not take over the returned list.
HandleDeleteHistoryKeepsList(id, writeOk) ==
    /\ isHistoryOpen
    /\ LET out == DeleteHistoryItem(stored, id, writeOk)
       IN  /\ stored' = out.stored
           /\ ret' = out.ret
           /\ history' = history
    /\ UNCHANGED <<chatVars, storeDriver, inputVars, loading, result, error, isHistoryOpen,
                   pending, reading, now, submits, edits>>

\* handleDeleteHistory(id): "delete" on a row of the open modal
HandleDeleteHistory(id, writeOk) ==
    /\ isHistoryOpen
    /\ LET out == DeleteHistoryItem(stored, id, writeOk)
       IN  /\ stored' = out.stored
           /\ ret' = out.ret
           /\ history' = IF out.threw THEN history ELSE out.ret
    /\ UNCHANGED <<chatVars, storeDriver, inputVars, loading, result, error, isHistoryOpen,
                   pending, reading, now, submits, edits>>

\* the history button, and onClose of the modal
SetIsHistoryOpen(open) ==
    /\ isHistoryOpen # open
    /\ isHistoryOpen' = open
    /\ UNCHANGED <<chatVars, stored, ret, storeDriver, inputVars, loading, result, error,
                   history, pending, reading, now, submits, edits>>

\* the tab buttons of the input view
SetActiveTab(tab) ==
    /\ result = NoResult
    /\ edits < MaxEdits
    /\ activeTab # tab
    /\ activeTab' = tab
    /\ edits' = edits + 1
    /\ UNCHANGED <<chatVars, stored, ret, storeDriver, topicText, topicImage, essayText,
                   essayImage, loading, result, error, history, isHistoryOpen,
                   pending, reading, now, submits>>

\* onChange of the topic text area
SetTopicText(text) ==
    /\ result = NoResult
    /\ edits < MaxEdits
    /\ topicText # text
    /\ topicText' = text
    /\ edits' = edits + 1
    /\ UNCHANGED <<chatVars, stored, ret, storeDriver, activeTab, topicImage, essayText,
                   essayImage, loading, result, error, history, isHistoryOpen,
                   pending, reading, now, submits>>

\* onChange of the essay text area
SetEssayText(text) ==
    /\ result = NoResult
    /\ edits < MaxEdits
    /\ essayText # text
    /\ essayText' = text
    /\ edits' = edits + 1
    /\ UNCHANGED <<chatVars, stored, ret, storeDriver, activeTab, topicText, topicImage,
                   essayImage, loading, result, error, history, isHistoryOpen,
                   pending, reading, now, submits>>

\* processFile / handleTextAreaPaste with reader.onloadend following at
\* once: setTopicImage(base64) or setEssayImage(base64)
AttachImage(slot) ==
    /\ result = NoResult
    /\ edits < MaxEdits
    /\ topicImage' = IF slot = "topic" THEN Image ELSE topicImage
    /\ essayImage' = IF slot = "essay" THEN Image ELSE essayImage
    /\ <<topicImage', essayImage'>> # <<topicImage, essayImage>>
    /\ edits' = edits + 1
    /\ UNCHANGED <<chatVars, stored, ret, storeDriver, activeTab, topicText, essayText,
                   loading, result, error, history, isHistoryOpen, pending,
                   reading, now, submits>>

\* ---------------------------------------------------- ResultView: the chat
\* Texts typed into the chat input: nothing, white space, a question.
InputMessages == {"", " ", "question"}

\* String.prototype.trim on these texts
Trim(text) == IF text = " " THEN "" ELSE text

chatFrame == <<storeVars, appVars, ev>>

\* onChange of the chat input, which is disabled while a chat call is awaited
SetInputMessage(text) ==
    /\ result # NoResult
    /\ ~isChatLoading
    /\ inputMessage # text
    /\ inputMessage' = text
    /\ UNCHANGED <<chatHistory, isChatLoading, chatPending, chats, chatFrame>>

\* handleSendMessage up to the await (send button, or Enter in the input):
\* return on an empty message or a call awaited; else append the user
\* message, clear the input, and issue the call with the result and essay
\* text on display and the transcript including the new message
HandleSendMessage ==
    /\ result # NoResult
    /\ IF Trim(inputMessage) = "" \/ isChatLoading
       THEN UNCHANGED chatVars
       ELSE /\ chats < MaxChats
            /\ LET newUserMessage == ChatMessage("user", inputMessage, now)
               IN  /\ chatHistory' = Append(chatHistory, newUserMessage)
                   /\ chatPending' = Append(chatPending,
                         [result |-> result, essayText |-> essayText,
                          context |-> Append(chatHistory, newUserMessage),
                          message |-> newUserMessage.content,
                          live |-> TRUE])
            /\ inputMessage' = ""
            /\ isChatLoading' = TRUE
            /\ chats' = chats + 1
    /\ UNCHANGED chatFrame

\* Variant of the continuation that clears the loading flag only on success.
ChatReturnedStaysLoading(i, outcome) ==
    /\ i \in 1..Len(chatPending)
    /\ LET call == chatPending[i]
           response == ChatWithExaminer(outcome)
       IN  IF call.live /\ response.ok
           THEN /\ chatHistory' = Append(chatHistory,
                                         ChatMessage("assistant", response.text, now))
                /\ isChatLoading' = FALSE
           ELSE UNCHANGED <<chatHistory, isChatLoading>>
    /\ chatPending' = RemoveAt(chatPending, i)
    /\ UNCHANGED <<inputMessage, chats, chatFrame>>

\* handleSendMessage after the await: append the assistant message (try), or
\* log (catch); clear the loading flag (finally). The state setters of a
\* view that has been unmounted change nothing.
ChatReturned(i, outcome) ==
    /\ i \in 1..Len(chatPending)
    /\ LET call == chatPending[i]
           response == ChatWithExaminer(outcome)
       IN  IF call.live
           THEN /\ chatHistory' =
                      IF response.ok
                      THEN Append(chatHistory, ChatMessage("assistant", response.text, now))
                      ELSE chatHistory
                /\ isChatLoading' = FALSE
           ELSE UNCHANGED <<chatHistory, isChatLoading>>
    /\ chatPending' = RemoveAt(chatPending, i)
    /\ UNCHANGED <<inputMessage, chats, chatFrame>>

\* Values Date.now() returns when a grading completes: the clock has moved
\* on since the previous read.
ClockReads == {now + 1}

\* rows of the history modal
HistoryRows == {history.recs[i] : i \in 1..Len(history.recs)}

\* One step of the session, the external call drawing from outcomes.
NextWith(outcomes) ==
    \/ HandleGrade
    \/ \E i \in 1..Len(pending), o \in outcomes : GradeFailed(i, o)
    \/ \E i \in 1..Len(pending), o \in outcomes, t \in ClockReads,
          writeOk \in BOOLEAN :
           GradeSucceeded(i, o, t, writeOk)
    \/ HandleClear
    \/ HandleEdit
    \/ \E r \in HistoryRows : HandleSelectHistory(r)
    \/ \E r \in HistoryRows, writeOk \in BOOLEAN : HandleDeleteHistory(r.id, writeOk)
    \/ \E open \in BOOLEAN : SetIsHistoryOpen(open)
    \/ \E tab \in EssayType : SetActiveTab(tab)
    \/ \E text \in TopicTexts : SetTopicText(text)
    \/ \E text \in EssayTexts : SetEssayText(text)
    \/ \E slot \in ImageSlots : AttachImage(slot)

Next == NextWith(GradingOutcomes)

Spec == Init /\ [][Next]_vars

\* The same session with a provider that may drop a required field.
LooseNext == NextWith(LooseOutcomes)

SpecLoose == Init /\ [][LooseNext]_vars

\* ------------------------------------- the selector on drawn histories
\* A submit against a history drawn from records over two topics and both
\* essay types, with distinct timestamps 1..n laid out newest first (as the
\* store keeps them), oldest first, or with inner neighbours swapped; each
\* record carries its own score.
SelectTopics == {"A", "B"}

Shuffled(i, n) ==
    IF i = 1 \/ i = n THEN i
    ELSE IF i % 2 = 0 THEN (IF i + 1 < n THEN i + 1 ELSE i)
    ELSE (IF i - 1 > 1 THEN i - 1 ELSE i)

TimestampLayouts(n) ==
    {[i \in 1..n |-> n - i + 1], [i \in 1..n |-> i], [i \in 1..n |-> Shuffled(i, n)]}

SelectHistories ==
    UNION {
        {[i \in 1..n |->
             HistoryRecord(IdOf(ts[i]), ts[i], kinds[i][1], kinds[i][2], "E",
                           GradingResult(10 + ts[i], 20, TRUE), FALSE)] :
            ts \in TimestampLayouts(n),
            kinds \in [1..n -> EssayType \X SelectTopics]} :
        n \in 0..MaxSelectLen}

SelectInit ==
    /\ \E h \in SelectHistories :
          /\ stored = JSONStringify(ArrayVal(h))
          /\ history = GetHistory(stored)
    /\ ret = history
    /\ nSaves = 0 /\ nDeletes = 0 /\ nWriteFails = 0
    /\ ev = [op |-> "mount"]
    /\ activeTab \in EssayType
    /\ topicText \in {""} \cup SelectTopics
    /\ topicImage = Image
    /\ essayText = "E" /\ essayImage = NoImage
    /\ loading = FALSE /\ result = NoResult /\ error = NoError
    /\ isHistoryOpen = FALSE
    /\ pending = <<>>
    /\ reading = {}
    /\ now = MaxSelectLen + 1
    /\ submits = 0
    /\ edits = 0
    /\ chatHistory = <<>> /\ inputMessage = "" /\ isChatLoading = FALSE
    /\ chatPending = <<>>
    /\ chats = 0

SelectNext == HandleGrade

SpecSelect == SelectInit /\ [][SelectNext]_vars

\* -------------------------------------------- Revision Selector claim
\* indices of the history records matching a call's essay type and topic
Matching(c) ==
    {i \in 1..Len(history.recs) :
        history.recs[i].type = c.tab /\ history.recs[i].topicText = c.topicText}

\* d lists, newest first and without repetition, the min(3, .) newest
\* records of the history that match c
NewestMatching(d, c) ==
    /\ Len(d) = Min(3, Cardinality(Matching(c)))
    /\ \A k \in 1..Len(d) : \E i \in Matching(c) : d[k] = history.recs[i]
    /\ \A k, l \in 1..Len(d) : k < l => d[k].timestamp >= d[l].timestamp
    /\ \A k, l \in 1..Len(d) : k # l => d[k] # d[l]
    /\ \A i \in Matching(c) :
          (\A k \in 1..Len(d) : d[k] # history.recs[i]) =>
              \A k \in 1..Len(d) : d[k].timestamp >= history.recs[i].timestamp

\* C3: the prior drafts passed to a grading call are the history records of
\* the active essay type and the identical topic text, by timestamp
\* descending, cut to the first 3; and none when the topic text is empty.
C3_DraftsAreNewestMatching ==
    \A n \in 1..Len(pending) :
        IF pending[n].topicText = ""
        THEN pending[n].drafts = <<>>
        ELSE NewestMatching(pending[n].drafts, pending[n])

\* C3 witness: records (A,BIG,1), (A,BIG,3), (B,BIG,2), (A,SMALL,4) and the
\* query (A,BIG) give the t=3 record and then the t=1 record.
C3_Witness ==
    /\ Len(history.recs) = 4
    /\ [i \in 1..4 |-> <<history.recs[i].topicText, history.recs[i].type,
                          history.recs[i].timestamp>>]
          = << <<"A", "BIG", 1>>, <<"A", "BIG", 3>>, <<"B", "BIG", 2>>, <<"A", "SMALL", 4>> >>
    /\ Len(pending) = 1
    /\ pending[1].tab = "BIG" /\ pending[1].topicText = "A"
    /\ pending[1].drafts = <<history.recs[2], history.recs[1]>>

\* ---------------------------------------------- Session Controller claims
GradeFailedStep == \E i \in 1..Len(pending), o \in GradingOutcomes : GradeFailed(i, o)

GradeSucceededStep(writeOk) ==
    \E i \in 1..Len(pending), o \in GradingOutcomes, t \in ClockReads :
        GradeSucceeded(i, o, t, writeOk)

\* C4: a submit with no topic (no text, no image) or no essay (no text, no
\* image) issues no external call, sets the validation message, leaves
\* loading false, inputs, result and history unchanged, and leaves the
\* submit control enabled.
C4_InvalidSubmitRejected ==
    [][(HandleGrade /\ (\/ topicText = "" /\ topicImage = NoImage
                        \/ essayText = "" /\ essayImage = NoImage)) =>
          /\ pending' = pending /\ submits' = submits
          /\ error' = ValidationError
          /\ loading' = FALSE
          /\ UNCHANGED <<inputVars, result, history, stored>>
          /\ result' = NoResult
          /\ SubmitEnabled']_vars

\* C4 witness: a submit with a topic but no essay has been rejected.
C4_Witness ==
    /\ error = ValidationError
    /\ topicText = "A" /\ essayText = "" /\ essayImage = NoImage
    /\ submits = 0 /\ pending = <<>> /\ ~loading /\ result = NoResult

\* C5: no partially valid GradingResult (one lacking the required
\* polishedVersion) is ever displayed or saved to history.
C5_NoPartialResult ==
    /\ result # NoResult => result.polishedVersion
    /\ \A i \in 1..Len(history.recs) : history.recs[i].result.polishedVersion
    /\ \A i \in 1..Len(GetHistory(stored).recs) :
          GetHistory(stored).recs[i].result.polishedVersion

\* C6: at most one external grading call is in flight; while one is, the
\* session is loading and no further submit is accepted, whatever the user
\* does in between.
C6_OneGradingInFlight ==
    /\ Len(pending) <= 1
    /\ pending # <<>> => (loading /\ ~ENABLED HandleGrade)

\* C6 witness: a second call is in flight after the first one resolved, the
\* input view is shown, and the user has changed the essay type since the
\* submit was accepted.
C6_Witness ==
    /\ Len(pending) = 1 /\ loading
    /\ result = NoResult
    /\ submits = 2
    /\ activeTab # pending[1].tab

\* C7: when the user has left for a history record while a grading call is
\* in flight, the late response does not replace the result displayed.
C7_LateResponseIgnored ==
    [][((pending # <<>> /\ result # NoResult) /\ pending' # pending) =>
          result' = result]_vars

\* C8 as stated: when the grading call fails, no result is shown, the error
\* is set, loading is false, the inputs and essay type are as submitted, no
\* record is created and no call is pending.
C8_FailureRestoresSubmission ==
    [][\A i \in 1..Len(pending) :
          (\E o \in GradingOutcomes : GradeFailed(i, o)) =>
              /\ result' = NoResult
              /\ error' = GradingError /\ loading' = FALSE
              /\ activeTab' = pending[i].tab
              /\ topicText' = pending[i].topicText
              /\ essayText' = pending[i].essayText
              /\ topicImage' = pending[i].topicImage
              /\ essayImage' = pending[i].essayImage
              /\ UNCHANGED <<history, stored>>
              /\ pending' = <<>>]_vars

\* C8 amended: when the grading call fails, the error is set, loading is
\* false, and the displayed result, the inputs, the essay type, the history
\* and the store are left as they were when the failure arrived; no record
\* is created and no call is pending.
C8_FailureChangesOnlyErrorAndLoading ==
    [][GradeFailedStep =>
          /\ error' = GradingError /\ loading' = FALSE
          /\ UNCHANGED <<result, inputVars, history, stored>>
          /\ pending' = <<>> /\ submits' = submits]_vars

\* C8 witness: a failed grading has left the form as submitted, no result.
C8_Witness ==
    /\ error = GradingError /\ ~loading /\ pending = <<>>
    /\ result = NoResult
    /\ submits = 1 /\ history.recs = <<>>
    /\ topicText = "A" /\ essayText = "E"

\* C9: a failed storage write in the save after a successful grading does
\* not fail the grading flow: the result is displayed, no error message is
\* set, loading is false.
C9_SaveFailureKeepsResult ==
    [][GradeSucceededStep(FALSE) =>
          /\ result' # NoResult
          /\ \E o \in GradingOutcomes : o.kind = "json" /\ result' = o.data
          /\ error' = NoError
          /\ loading' = FALSE
          /\ stored' = stored]_vars

\* C9 witness: a result is displayed although nothing could be saved.
C9_Witness ==
    /\ result # NoResult /\ error = NoError /\ ~loading
    /\ submits = 1 /\ pending = <<>>
    /\ history.recs = <<>> /\ stored = MissingBlob

\* ------------------------------------------- sessions over any stored blob
\* The blob found under STORAGE_KEY at mount is not the program's to choose:
\* nothing, text that does not parse, JSON text of a value that is not an
\* array (an object), or the JSON text of a list of records.
BlobRecord ==
    HistoryRecord(IdOf(0), 0, "BIG", "A", "E", GradingResult(8, 10, TRUE), FALSE)

StoredBlobs ==
    {MissingBlob, CorruptBlob, JSONStringify(NonArrayVal),
     JSONStringify(ArrayVal(<<BlobRecord>>))}

\* The mount effect has run on one of these blobs: history = getHistory().
BlobInit ==
    /\ stored \in StoredBlobs
    /\ history = GetHistory(stored)
    /\ ret = GetHistory(stored)
    /\ nSaves = 0 /\ nDeletes = 0 /\ nWriteFails = 0
    /\ ev = [op |-> "mount"]
    /\ AppInit

SpecBlob == BlobInit /\ [][Next]_vars

\* C11: whatever the stored blob holds, getHistory returns a sequence of
\* records: the value read back from the store, the history the session
\* holds, and the value the last store operation returned are sequences.
C11_GetHistoryReturnsSequence ==
    /\ GetHistory(stored).isArray
    /\ history.isArray
    /\ ret.isArray

\* ------------------------------------- Session Controller claims, continued
\* C13: a successful grading builds one HistoryRecord from what was
\* submitted and hands it to the store: the submitted essay type, the topic
\* text (or the image-only placeholder when it was empty), the essay text
\* likewise, the returned result, hasImages iff an image was supplied; the
\* store lists it first, ahead of what it listed before, and the session
\* shows that result.
C13_OneRecordFromSubmission ==
    [][\A i \in 1..Len(pending) : \A o \in GradingOutcomes : \A t \in ClockReads :
          GradeSucceeded(i, o, t, TRUE) =>
              LET c == pending[i]
                  new == GetHistory(stored').recs
                  rec == new[1]
              IN  /\ Len(new) = Min(Len(GetHistory(stored).recs) + 1, 20)
                  /\ Tail(new) = Slice(GetHistory(stored).recs, 19)
                  /\ rec.type = c.tab
                  /\ rec.topicText =
                        (IF c.topicText # "" THEN c.topicText ELSE TopicImagePlaceholder)
                  /\ rec.essayText =
                        (IF c.essayText # "" THEN c.essayText ELSE EssayImagePlaceholder)
                  /\ rec.result = o.data
                  /\ rec.hasImages = (c.topicImage # NoImage \/ c.essayImage # NoImage)
                  /\ result' = o.data /\ result' # NoResult
                  /\ history' = GetHistory(stored')]_vars

\* C13 witness: an image-only topic has been graded and saved under the
\* topic placeholder, and its result is displayed.
C13_Witness ==
    /\ Len(history.recs) = 1
    /\ history.recs[1].topicText = TopicImagePlaceholder
    /\ history.recs[1].essayText = "E"
    /\ history.recs[1].hasImages
    /\ result = history.recs[1].result
    /\ history = GetHistory(stored)
    /\ ~loading /\ pending = <<>>

\* C14: selecting a history record shows the record's result, sets essay
\* type, topic text and essay text from the record, clears both images,
\* issues no grading call and leaves the store and the history as they are.
C14_SelectShowsStoredResult ==
    [][\A r \in HistoryRows :
          HandleSelectHistory(r) =>
              /\ result' = r.result /\ result' # NoResult
              /\ activeTab' = r.type
              /\ topicText' = r.topicText
              /\ essayText' = r.essayText
              /\ topicImage' = NoImage /\ essayImage' = NoImage
              /\ UNCHANGED <<pending, submits, stored, history>>]_vars

\* C14 witness: a record was selected while a grading call of another
\* submission is in flight; its result is shown and the call is untouched.
C14_Witness ==
    /\ loading /\ Len(pending) = 1
    /\ result # NoResult
    /\ ~isHistoryOpen
    /\ Len(history.recs) = 1
    /\ result = history.recs[1].result
    /\ activeTab = history.recs[1].type
    /\ topicText = history.recs[1].topicText
    /\ essayText = history.recs[1].essayText
    /\ topicImage = NoImage /\ essayImage = NoImage

\* C19: "edit" hides the result and changes nothing else: topic text, essay
\* text, both images, the essay type and the history stay as they are.
C19_EditOnlyHidesResult ==
    [][HandleEdit =>
          /\ result # NoResult /\ result' = NoResult
          /\ UNCHANGED <<topicText, essayText, topicImage, essayImage, activeTab,
                         history, stored>>]_vars

\* C19 witness: back in the input view after a grading, the submitted topic
\* image and essay text still in the form.
C19_Witness ==
    /\ result = NoResult
    /\ Len(history.recs) = 1 /\ history.recs[1].hasImages
    /\ topicText = "" /\ topicImage = Image
    /\ essayText = "E" /\ essayImage = NoImage
    /\ edits = 2

\* C20: "new" leaves no result shown, topic and essay text empty, no image
\* attached and no error message, and the history as it was.
C20_NewClearsEverything ==
    [][HandleClear =>
          /\ result' = NoResult
          /\ topicText' = "" /\ essayText' = ""
          /\ topicImage' = NoImage /\ essayImage' = NoImage
          /\ error' = NoError
          /\ UNCHANGED <<history, stored>>]_vars

\* C20 witness: an empty form with no error after a saved grading whose
\* inputs had been typed in.
C20_Witness ==
    /\ result = NoResult /\ error = NoError
    /\ topicText = "" /\ essayText = ""
    /\ topicImage = NoImage /\ essayImage = NoImage
    /\ Len(history.recs) = 1 /\ history.recs[1].topicText = "A"
    /\ edits = 2

\* --------------------------------------------- sessions with the chat used
\* A session mounted on a history of two records with different results,
\* in which the user views records, chats about them, edits and clears.
ChatRecords ==
    << HistoryRecord(IdOf(2), 2, "BIG", "A", "E", GradingResult(15, 20, TRUE), FALSE),
       HistoryRecord(IdOf(1), 1, "SMALL", "A", "E", GradingResult(8, 10, TRUE), FALSE) >>

ChatInit ==
    /\ stored = JSONStringify(ArrayVal(ChatRecords))
    /\ history = GetHistory(stored)
    /\ ret = GetHistory(stored)
    /\ nSaves = 0 /\ nDeletes = 0 /\ nWriteFails = 0
    /\ ev = [op |-> "mount"]
    /\ activeTab = "BIG"
    /\ topicText = "" /\ topicImage = NoImage
    /\ essayText = "" /\ essayImage = NoImage
    /\ loading = FALSE /\ result = NoResult /\ error = NoError
    /\ isHistoryOpen = FALSE
    /\ pending = <<>>
    /\ reading = {}
    /\ now = 3
    /\ submits = 0
    /\ edits = 0
    /\ chatHistory = <<>> /\ inputMessage = "" /\ isChatLoading = FALSE
    /\ chatPending = <<>>
    /\ chats = 0

ChatNext ==
    \/ HandleClear
    \/ HandleEdit
    \/ \E r \in HistoryRows : HandleSelectHistory(r)
    \/ \E open \in BOOLEAN : SetIsHistoryOpen(open)
    \/ \E text \in InputMessages : SetInputMessage(text)
    \/ HandleSendMessage
    \/ \E i \in 1..Len(chatPending), o \in ChatOutcomes : ChatReturned(i, o)

SpecChat == ChatInit /\ [][ChatNext]_vars

\* ------------------------------------------------------------- chat claims
\* C15: every transition into viewing a result starts with an empty chat
\* transcript: when another result comes on display, no message exchanged
\* about the previous one is left in the transcript.
C15_ViewingStartsWithEmptyChat ==
    [][(result' # NoResult /\ result' # result) => chatHistory' = <<>>]_vars

\* a step in which a chat message is accepted: a user message joins the
\* transcript
SendAccepted ==
    /\ Len(chatHistory') = Len(chatHistory) + 1
    /\ chatHistory'[Len(chatHistory')].role = "user"

\* C16: each accepted chat message issues exactly one external chat call
\* (and no call is issued otherwise); when the call of the view on display
\* returns text, that text is appended as the assistant message; when it
\* returns no text, the fallback string is; either way no error is set and
\* the chat loading flag is cleared.
C16_OneCallAndFallback ==
    [][/\ SendAccepted =>
            /\ Len(chatPending') = Len(chatPending) + 1
            /\ chats' = chats + 1
       /\ (Len(chatPending') > Len(chatPending) \/ chats' # chats) => SendAccepted
       /\ \A i \in 1..Len(chatPending) : \A o \in ChatOutcomes :
            (ChatReturned(i, o) /\ chatPending[i].live /\ o.kind # "raise") =>
                /\ Len(chatHistory') = Len(chatHistory) + 1
                /\ SubSeq(chatHistory', 1, Len(chatHistory)) = chatHistory
                /\ chatHistory'[Len(chatHistory')].role = "assistant"
                /\ chatHistory'[Len(chatHistory')].content =
                      (IF o.kind = "text" THEN o.text ELSE ChatFallback)
                /\ isChatLoading' = FALSE
                /\ error' = error
                /\ Len(chatPending') = Len(chatPending) - 1]_vars

\* C16 witness: a question was answered with the fallback string.
C16_Witness ==
    /\ result # NoResult
    /\ Len(chatHistory) = 2
    /\ chatHistory[1].role = "user" /\ chatHistory[1].content = "question"
    /\ chatHistory[2].role = "assistant" /\ chatHistory[2].content = ChatFallback
    /\ ~isChatLoading /\ chatPending = <<>> /\ chats = 1
    /\ error = NoError

\* once the loading flag is false, a typed message is accepted
CanSendAgain ==
    (result # NoResult /\ ~isChatLoading /\ Trim(inputMessage) # "" /\ chats < MaxChats)
        => ENABLED (HandleSendMessage /\ SendAccepted)

\* C17: when a chat call raises, no assistant message is appended and the
\* transcript is what it was; for the call of the view on display the chat
\* loading flag becomes false and the result stays on display; and with the
\* loading flag false a message typed next is accepted.
C17_ChatFailureKeepsTranscript ==
    /\ []CanSendAgain
    /\ [][\A i \in 1..Len(chatPending) : \A o \in ChatOutcomes :
            (ChatReturned(i, o) /\ o.kind = "raise") =>
                /\ chatHistory' = chatHistory
                /\ chatPending[i].live =>
                      /\ isChatLoading' = FALSE
                      /\ result' = result /\ result' # NoResult]_vars

\* C17 witness: a question is in the transcript without an answer, no call
\* is awaited, and the user has typed the next message.
C17_Witness ==
    /\ result # NoResult
    /\ Len(chatHistory) = 1 /\ chatHistory[1].role = "user"
    /\ ~isChatLoading /\ chatPending = <<>> /\ chats = 1
    /\ inputMessage = "question"

\* C18: at most one external chat call is in flight at any time.
C18_OneChatInFlight == Len(chatPending) <= 1

\* ------------------------------------------- scores and image-only topics
\* the records listed by the store and held by the session
KnownRecords ==
    {GetHistory(stored).recs[i] : i \in 1..Len(GetHistory(stored).recs)}
        \cup {history.recs[i] : i \in 1..Len(history.recs)}

\* C21: every result stored in history has maxScore 20 when it was graded
\* as BIG and 10 when graded as SMALL, and totalScore <= maxScore.
C21_ScoresFitEssayType ==
    \A r \in KnownRecords :
        /\ r.result.maxScore = (IF r.type = "BIG" THEN 20 ELSE 10)
        /\ r.result.totalScore <= r.result.maxScore

\* C22: a record created from a submission whose topic was given only as an
\* image (stored under the topic placeholder) is never among the prior
\* drafts of a grading call.
C22_ImageOnlyNeverPriorDraft ==
    \A n \in 1..Len(pending) : \A k \in 1..Len(pending[n].drafts) :
        pending[n].drafts[k].topicText # TopicImagePlaceholder

\* ------------------------------------------ the store's JSON serialization
\* JavaScript values as far as JSON.stringify tells them apart.
JsString(str) == [t |-> "string", v |-> str]
JsNumber(n) == [t |-> "number", v |-> n]
JsNaN == [t |-> "NaN"]
JsBoolean(b) == [t |-> "boolean", v |-> b]
JsNull == [t |-> "null"]
JsUndefined == [t |-> "undefined"]
JsObject(props) == [t |-> "object", v |-> props]
JsArray(elems) == [t |-> "array", v |-> elems]

\* JSON text, as the tree of its grammar.
TextString(str) == [j |-> "string", chars |-> str]
TextNumber(n) == [j |-> "number", digits |-> n]
TextLiteral(word) == [j |-> "literal", word |-> word]
TextObject(members) == [j |-> "object", members |-> members]
TextArray(elements) == [j |-> "array", elements |-> elements]

\* Variant of JSON.stringify that leaves out members holding an empty array.
RECURSIVE JsonTextDropsEmptyArrays(_)
JsonTextDropsEmptyArrays(x) ==
    CASE x.t = "string" -> TextString(x.v)
      [] x.t = "number" -> TextNumber(x.v)
      [] x.t = "boolean" -> TextLiteral(IF x.v THEN "true" ELSE "false")
      [] x.t \in {"null", "NaN", "undefined"} -> TextLiteral("null")
      [] x.t = "array" ->
            TextArray([i \in 1..Len(x.v) |-> JsonTextDropsEmptyArrays(x.v[i])])
      [] x.t = "object" ->
            LET written == {k \in DOMAIN x.v :
                               /\ x.v[k].t # "undefined"
                               /\ ~(x.v[k].t = "array" /\ Len(x.v[k].v) = 0)}
            IN  TextObject([k \in written |-> JsonTextDropsEmptyArrays(x.v[k])])

\* JSON.stringify(x) for x an array or a value inside one: NaN and
\* Infinity are written as null, an undefined array element as null, and an
\* object member whose value is undefined is not written.
RECURSIVE JsonText(_)
JsonText(x) ==
    CASE x.t = "string" -> TextString(x.v)
      [] x.t = "number" -> TextNumber(x.v)
      [] x.t = "boolean" -> TextLiteral(IF x.v THEN "true" ELSE "false")
      [] x.t \in {"null", "NaN", "undefined"} -> TextLiteral("null")
      [] x.t = "array" -> TextArray([i \in 1..Len(x.v) |-> JsonText(x.v[i])])
      [] x.t = "object" ->
            LET written == {k \in DOMAIN x.v : x.v[k].t # "undefined"}
            IN  TextObject([k \in written |-> JsonText(x.v[k])])

\* JSON.parse(text) for well-formed text
RECURSIVE JsonValue(_)
JsonValue(text) ==
    CASE text.j = "string" -> JsString(text.chars)
      [] text.j = "number" -> JsNumber(text.digits)
      [] text.j = "literal" ->
            (CASE text.word = "true" -> JsBoolean(TRUE)
               [] text.word = "false" -> JsBoolean(FALSE)
               [] text.word = "null" -> JsNull)
      [] text.j = "array" ->
            JsArray([i \in 1..Len(text.elements) |-> JsonValue(text.elements[i])])
      [] text.j = "object" ->
            JsObject([k \in DOMAIN text.members |-> JsonValue(text.members[k])])

\* The response text of the provider for a grading: the members the
\* schema requires, and the optional ones named in opts
\* (wordCountAnalysis.pruningAdvice, revisionAnalysis, exercises[].options).
OptionalFields == {"pruningAdvice", "revisionAnalysis", "options"}

With(members, present, extra) == IF present THEN extra @@ members ELSE members

GradingText(opts) ==
    TextObject(With(
        [totalScore |-> TextNumber(15),
         maxScore |-> TextNumber(20),
         wordCountAnalysis |-> TextObject(With(
             [count |-> TextNumber(170),
              comment |-> TextString("fine"),
              isAcceptable |-> TextLiteral("true")],
             "pruningAdvice" \in opts,
             [pruningAdvice |-> TextString("cut")])),
         brightSpots |-> TextArray(<<>>),
         corrections |-> TextArray(<<
             TextObject([original |-> TextString("a"),
                         correction |-> TextString("b"),
                         type |-> TextString("grammar")]) >>),
         polishedVersion |-> TextString("polished"),
         exercises |-> TextArray(<<
             TextObject(With(
                 [question |-> TextString("q"), answer |-> TextString("x")],
                 "options" \in opts,
                 [options |-> TextArray(<<TextString("x"), TextString("y")>>)])) >>)],
        "revisionAnalysis" \in opts,
        [revisionAnalysis |-> TextObject(
            [isRevision |-> TextLiteral("false"),
             scoreChange |-> TextString("0"),
             improvements |-> TextArray(<<>>)])]))

\* newRecord in handleGrade as a JavaScript object: data is what gradeEssay
\* returned, the value JSON.parse made of the response text
JsNewRecord(t, type, data, hasImages) ==
    JsObject([id |-> JsString(IdOf(t)),
              timestamp |-> JsNumber(t),
              type |-> JsString(type),
              topicText |-> JsString("A"),
              essayText |-> JsString("E"),
              result |-> data,
              hasImages |-> JsBoolean(hasImages)])

JsonRecords(t) ==
    {JsNewRecord(t, type, JsonValue(GradingText(opts)), hasImages) :
        type \in EssayType, opts \in SUBSET OptionalFields, hasImages \in BOOLEAN}

\* getHistory() on a blob holding JSON text
JsonGetHistory(blob) ==
    IF blob.kind = "text" THEN JsonValue(blob.val) ELSE JsArray(<<>>)

JsonInit ==
    /\ stored = MissingBlob
    /\ history = GetHistory(stored)
    /\ ret = JsonGetHistory(stored)
    /\ nSaves = 0 /\ nDeletes = 0 /\ nWriteFails = 0
    /\ ev = [op |-> "init"]
    /\ AppInit

\* saveHistory(record), the write succeeding, followed by getHistory():
\* setItem(JSON.stringify([record, ...history].slice(0, 20))), then
\* JSON.parse(getItem())
JsonSaveThenList(record) ==
    /\ nSaves < MaxJsonSaves
    /\ LET updated == JsArray(Slice(<<record>> \o JsonGetHistory(stored).v, HistoryLimit))
       IN  stored' = [kind |-> "text", val |-> JsonText(updated)]
    /\ ret' = JsonGetHistory(stored')
    /\ ev' = [op |-> "save", record |-> record]
    /\ nSaves' = nSaves + 1
    /\ UNCHANGED <<nDeletes, nWriteFails, appVars, chatVars>>

JsonNext == \E record \in JsonRecords(nSaves + 1) : JsonSaveThenList(record)

SpecJson == JsonInit /\ [][JsonNext]_vars

\* C23: a record passed to a successful saveHistory and read back by
\* getHistory is identical to the record saved, member for member, nested
\* objects and absent optional members included; the records saved before
\* it are read back unchanged behind it.
C23_SaveListRoundTrip ==
    [][(ev'.op = "save") =>
          /\ ret'.t = "array"
          /\ Len(ret'.v) = Len(ret.v) + 1
          /\ ret'.v[1] = ev'.record
          /\ DOMAIN ret'.v[1].v.result.v = DOMAIN ev'.record.v.result.v
          /\ Tail(ret'.v) = ret.v]_vars

\* C23 witness: a record without any optional member has been saved on top
\* of one with all of them, and both are read back as they were saved.
C23_Witness ==
    /\ ev.op = "save" /\ nSaves = 2
    /\ Len(ret.v) = 2
    /\ ret.v[1] = ev.record
    /\ "revisionAnalysis" \notin DOMAIN ret.v[1].v.result.v
    /\ "pruningAdvice" \notin DOMAIN ret.v[1].v.result.v.wordCountAnalysis.v
    /\ "options" \notin DOMAIN ret.v[1].v.result.v.exercises.v[1].v
    /\ "revisionAnalysis" \in DOMAIN ret.v[2].v.result.v
    /\ "pruningAdvice" \in DOMAIN ret.v[2].v.result.v.wordCountAnalysis.v
    /\ "options" \in DOMAIN ret.v[2].v.result.v.exercises.v[1].v

\* ----------------------------------------------- the wall clock of the ids
\* Date.now() is the system's wall clock in milliseconds: two reads may
\* return the same value (two completions in one millisecond, or the clock
\* set back between them).
WallClockReads == {now, now + 1}

ClockNext ==
    \/ HandleGrade
    \/ \E i \in 1..Len(pending), o \in GradingOutcomes, t \in WallClockReads :
           GradeSucceeded(i, o, t, TRUE)
    \/ HandleClear
    \/ HandleEdit
    \/ \E r \in HistoryRows, writeOk \in BOOLEAN : HandleDeleteHistory(r.id, writeOk)
    \/ \E open \in BOOLEAN : SetIsHistoryOpen(open)
    \/ \E tab \in EssayType : SetActiveTab(tab)
    \/ \E text \in TopicTexts : SetTopicText(text)
    \/ \E text \in EssayTexts : SetEssayText(text)

SpecClock == Init /\ [][ClockNext]_vars

\* C24: no two records of the history store have the same id.
C24_IdsUnique ==
    LET recs == GetHistory(stored).recs
    IN  \A i, j \in 1..Len(recs) : recs[i].id = recs[j].id => i = j

\* ------------------------------------------- the grading call's completion
\* The promise of gradeEssay settles: the awaiting handleGrade resumes in
\* its try block (success) or its catch block (failure).
GradingReturns ==
    \E i \in 1..Len(pending), o \in GradingOutcomes :
        \/ GradeFailed(i, o)
        \/ \E t \in ClockReads, writeOk \in BOOLEAN : GradeSucceeded(i, o, t, writeOk)

\* The session over every stored value, every call in flight settling.
SpecLive == BlobInit /\ [][Next]_vars /\ WF_vars(GradingReturns)

C26_OnlySaveAndDeleteChangeStore ==
    [][LET old == GetHistory(stored).recs
           new == GetHistory(stored').recs
       IN  /\ (stored' # stored) =>
                 \/ \E i \in 1..Len(pending), o \in GradingOutcomes, t \in ClockReads :
                        /\ GradeSucceeded(i, o, t, TRUE)
                        /\ new = Slice(<<NewRecord(pending[i], GradeEssay(o).data, t)>> \o old,
                                       HistoryLimit)
                 \/ \E r \in HistoryRows :
                        /\ HandleDeleteHistory(r.id, TRUE)
                        /\ new = SelectSeq(old, LAMBDA x : x.id # r.id)
           /\ (\/ HandleGrade
               \/ \E i \in 1..Len(pending), o \in GradingOutcomes : GradeFailed(i, o)
               \/ \E r \in HistoryRows : HandleSelectHistory(r)
               \/ HandleEdit
               \/ HandleClear) => stored' = stored]_vars

\* C26 witness: two gradings were saved, the older record has been selected
\* for viewing, and both records are stored as they were saved.
C26_Witness ==
    LET recs == GetHistory(stored).recs
    IN  /\ Len(recs) = 2 /\ pending = <<>> /\ ~isHistoryOpen
        /\ recs[1].timestamp > recs[2].timestamp
        /\ result = recs[2].result /\ result # recs[1].result
        /\ activeTab = recs[2].type /\ activeTab # recs[1].type
        /\ history = GetHistory(stored)

\* ------------------------------------------- the revision context quoted
\* C27: the instruction of a grading call with prior drafts holds the
\* revision block with exactly one quoted version, whose score and essay
\* text are those of the stored record with the greatest timestamp among
\* the records of the submitted type and topic text; with no prior drafts
\* the instruction holds no revision block.
C27_QuotesNewestMatchingDraft ==
    \A n \in 1..Len(pending) :
        LET c == pending[n]
        IN  IF c.drafts = <<>>
            THEN c.historyContext = NoHistoryContext
            ELSE /\ c.historyContext.block
                 /\ Len(c.historyContext.versions) = 1
                 /\ \E i \in Matching(c) :
                       /\ \A j \in Matching(c) :
                             history.recs[j].timestamp <= history.recs[i].timestamp
                       /\ c.historyContext.versions[1] =
                             [score |-> history.recs[i].result.totalScore,
                              essayText |-> history.recs[i].essayText]

\* C27 witness: of the records (A,BIG,1), (A,BIG,3), (B,BIG,2), (A,SMALL,4)
\* the call for (A,BIG) quotes the t=3 record, which is not the first of
\* the store.
C27_Witness ==
    /\ Len(history.recs) = 4
    /\ [i \in 1..4 |-> <<history.recs[i].topicText, history.recs[i].type,
                          history.recs[i].timestamp>>]
          = << <<"A", "BIG", 1>>, <<"A", "BIG", 3>>, <<"B", "BIG", 2>>, <<"A", "SMALL", 4>> >>
    /\ Len(pending) = 1
    /\ pending[1].tab = "BIG" /\ pending[1].topicText = "A"
    /\ pending[1].historyContext.versions =
          <<[score |-> history.recs[2].result.totalScore, essayText |-> "E"]>>
    /\ history.recs[2].result.totalScore # history.recs[1].result.totalScore

\* ------------------------------------------ what the result view is given
\* <ResultView type={activeTab} essayText={essayText}/>: the view renders
\* the result with the tab and the essay text of the form as they are now.
DisplayedType == activeTab

ChatEssayText == essayText

\* C28: when the result of a grading call is displayed, the essay type it
\* is rendered with and the essay text handed to the chat are those
\* submitted with that call.
C28_DisplayedAsSubmitted ==
    [][\A i \in 1..Len(pending) :
          (\E o \in GradingOutcomes, t \in ClockReads, writeOk \in BOOLEAN :
              GradeSucceeded(i, o, t, writeOk)) =>
              /\ DisplayedType' = pending[i].tab
              /\ ChatEssayText' = pending[i].essayText]_vars

\* ------------------------------------------- the list held by the session
\* C29: the history held by the session controller is the sequence
\* persisted in local storage, after the load on mount and after every save
\* and delete, whether its write succeeded or not.
C29_HistoryIsPersisted == history = GetHistory(stored)

\* C29 witness: two gradings have returned a result, the second result is
\* displayed, and one record is listed, which is not of the second grading:
\* its write failed, or its record was deleted again.
C29_Witness ==
    /\ submits = 2 /\ pending = <<>>
    /\ result # NoResult
    /\ Len(history.recs) = 1
    /\ result # history.recs[1].result
    /\ history = GetHistory(stored)

\* ------------------------------------------------ asynchronous image reads
\* processFile / handleTextAreaPaste: reader.readAsDataURL(file) is started
\* on an upload or a paste in the input view
StartRead(slot) ==
    /\ result = NoResult
    /\ edits < MaxEdits
    /\ [slot |-> slot, stale |-> FALSE] \notin reading
    /\ reading' = reading \cup {[slot |-> slot, stale |-> FALSE]}
    /\ edits' = edits + 1
    /\ UNCHANGED <<chatVars, stored, ret, storeDriver, inputVars, loading, result, error,
                   history, isHistoryOpen, pending, now, submits>>

\* reader.onloadend: setTopicImage(base64) or setEssayImage(base64), the
\* state setters of App, whatever the session has done since the read began
ReadDone(r) ==
    /\ r \in reading
    /\ reading' = reading \ {r}
    /\ topicImage' = IF r.slot = "topic" THEN Image ELSE topicImage
    /\ essayImage' = IF r.slot = "essay" THEN Image ELSE essayImage
    /\ UNCHANGED <<chatVars, stored, ret, storeDriver, activeTab, topicText, essayText,
                   loading, result, error, history, isHistoryOpen, pending, now,
                   submits, edits>>

\* Reads in the two slots, begun before or after the last transition.
Reads == [slot : ImageSlots, stale : BOOLEAN]

ReadNext ==
    \/ \E slot \in ImageSlots : StartRead(slot)
    \/ \E r \in Reads : ReadDone(r)
    \/ HandleClear
    \/ HandleEdit
    \/ \E r \in HistoryRows : HandleSelectHistory(r)
    \/ \E open \in BOOLEAN : SetIsHistoryOpen(open)

SpecRead == ChatInit /\ [][ReadNext]_vars

\* C30: a read begun before "new" or a history selection does not attach
\* its image after that transition.
C30_LateReadNotAttached ==
    [][\A r \in Reads :
          (r.stale /\ ReadDone(r)) => UNCHANGED <<topicImage, essayImage>>]_vars

====
